---- MODULE Spec2Model ----
(***************************************************************************)
(* Model of app.py: the medicine table built at start-up from the CSV      *)
(* file, the pre-trained classifier pipeline, recommend_alternatives and   *)
(* the search button handler that calls it.                                *)
(*                                                                         *)
(* A Python str is a sequence of one-character strings.  A missing cell    *)
(* of a text column (NaN) is the one-element sequence NaNText; a missing   *)
(* price (NaN) is the number NaN, below every real price.                  *)
(***************************************************************************)
EXTENDS Integers, Sequences, FiniteSets, TLC

\* ------------------------------------------------------------------ bounds

\* Largest number of rows of the CSV file.
MaxRows == 3

\* Largest top_n a caller passes (the slider's max_value, scaled down).
MaxTopN == 2

\* ------------------------------------------------------------- characters

\* The characters of the modelled strings, in code-point order.
Chars ==
    << " ", "(", ")", ",", "/", "1", "2", "3", "5",
       "A", "B", "M", "N", "P", "[", "]",
       "a", "b", "c", "d", "g", "l", "m", "n", "p", "q", "z" >>

\* ord(c): the rank of a character in code-point order.
Ord(c) == CHOOSE i \in 1..Len(Chars) : Chars[i] = c

\* str.lower() on one character.
LowerChar(c) ==
    CASE c = "A" -> "a"
      [] c = "B" -> "b"
      [] c = "M" -> "m"
      [] c = "N" -> "n"
      [] c = "P" -> "p"
      [] OTHER   -> c

\* the regex class \s and the characters str.strip() removes
IsSpace(c) == c = " "

\* the regex class \d
IsDigit(c) == c \in {"1", "2", "3", "5"}

DigitVal(c) ==
    CASE c = "1" -> 1
      [] c = "2" -> 2
      [] c = "3" -> 3
      [] c = "5" -> 5

\* ---------------------------------------------------------------- strings

\* str.lower()
lower(s) == [i \in 1..Len(s) |-> LowerChar(s[i])]

\* str.strip(): drop the leading and the trailing whitespace
strip(s) ==
    LET keep == {i \in 1..Len(s) : ~IsSpace(s[i])}
    IN  IF keep = {} THEN << >>
        ELSE LET lo == CHOOSE i \in keep : \A j \in keep : i <= j
                 hi == CHOOSE i \in keep : \A j \in keep : j <= i
             IN  SubSeq(s, lo, hi)

\* s[i:] starts with the literal lit (i is 1-based)
StartsAt(s, i, lit) ==
    /\ i + Len(lit) - 1 <= Len(s)
    /\ \A k \in 1..Len(lit) : s[i + k - 1] = lit[k]

\* Series.str.contains(key, regex=False) on one value: literal substring
contains(s, key) == \E i \in 1..(Len(s) + 1) : StartsAt(s, i, key)

\* the order of str values: lexicographic by code point
StrLess(a, b) ==
    \E k \in 0..Len(a) :
        /\ k <= Len(b)
        /\ \A j \in 1..k : a[j] = b[j]
        /\ IF k = Len(a) THEN k < Len(b)
           ELSE k < Len(b) /\ Ord(a[k + 1]) < Ord(b[k + 1])

\* " ".join(parts)
RECURSIVE join(_)
join(parts) ==
    IF parts = << >> THEN << >>
    ELSE IF Len(parts) = 1 THEN parts[1]
    ELSE parts[1] \o << " " >> \o join(Tail(parts))

\* ------------------------------------------------------- missing values

\* a missing cell of a text column
NaNText == << "NaN" >>

\* a missing price: pd.to_numeric(..., errors="coerce") of an unparseable cell
NaN == -1

\* pd.isna on a text cell
isna(text) == text = NaNText

\* Series.fillna("") on one cell
fillna(text) == IF isna(text) THEN << >> ELSE text

\* pd.to_numeric(cell, errors="coerce"): the number a cell of digits spells,
\* NaN for anything else
RECURSIVE ParseDigits(_, _)
ParseDigits(s, acc) ==
    IF s = << >> THEN acc
    ELSE ParseDigits(Tail(s), 10 * acc + DigitVal(Head(s)))

to_numeric(cell) ==
    IF cell # << >> /\ \A i \in 1..Len(cell) : IsDigit(cell[i])
    THEN ParseDigits(cell, 0)
    ELSE NaN

\* ------------------------------------------------------ clean_composition

\* re.sub(r"[()\[\],]", " ", text)
SubPunct(s) ==
    [i \in 1..Len(s) |->
        IF s[i] \in {"(", ")", "[", "]", ","} THEN " " ELSE s[i]]

\* re.sub(r"\s+", " ", text): every run of whitespace becomes one space
RECURSIVE SubSpaces(_)
SubSpaces(s) ==
    IF s = << >> THEN << >>
    ELSE IF IsSpace(Head(s))
         THEN IF Len(s) > 1 /\ IsSpace(s[2])
              THEN SubSpaces(Tail(s))
              ELSE << " " >> \o SubSpaces(Tail(s))
         ELSE << Head(s) >> \o SubSpaces(Tail(s))

clean_composition(text) ==
    IF isna(text) THEN << >>
    ELSE strip(SubSpaces(SubPunct(lower(text))))

\* --------------------------------------------------------- extract_dosage

\* The three alternatives of the pattern, in the order the regex tries them.
Units == << << "m", "g" >>, << "m", "l" >>, << "m", "c", "g" >> >>

\* The end (exclusive) of the match of \d+\s*unit at position i, 0 when the
\* alternative does not match there.  \d+ and \s* are greedy and backtrack:
\* the match is the one with the longest digits, then the longest spaces.
AltEnd(s, i, unit) ==
    LET fits == {dw \in (1..Len(s)) \X (0..Len(s)) :
                    /\ i + dw[1] + dw[2] - 1 <= Len(s)
                    /\ \A k \in i..(i + dw[1] - 1) : IsDigit(s[k])
                    /\ \A k \in (i + dw[1])..(i + dw[1] + dw[2] - 1) : IsSpace(s[k])
                    /\ StartsAt(s, i + dw[1] + dw[2], unit)}
    IN  IF fits = {} THEN 0
        ELSE LET best == CHOOSE dw \in fits :
                            \A o \in fits :
                                \/ o[1] < dw[1]
                                \/ (o[1] = dw[1] /\ o[2] <= dw[2])
             IN  i + best[1] + best[2] + Len(unit)

\* The end of the pattern's match at position i: the first alternative that
\* matches wins; 0 when none does.
MatchEnd(s, i) ==
    LET hits == {a \in 1..Len(Units) : AltEnd(s, i, Units[a]) # 0}
    IN  IF hits = {} THEN 0
        ELSE AltEnd(s, i, Units[CHOOSE a \in hits : \A b \in hits : a <= b])

\* re.findall(pattern, s): the non-overlapping matches, scanning from the left
RECURSIVE findall(_, _)
findall(s, i) ==
    IF i > Len(s) THEN << >>
    ELSE LET e == MatchEnd(s, i)
         IN  IF e = 0 THEN findall(s, i + 1)
             ELSE << SubSeq(s, i, e - 1) >> \o findall(s, e)

extract_dosage(text) == join(findall(lower(text), 1))

\* ------------------------------------------------------------- the CSV file

\* The rows a CSV file is made of: name, short_composition1,
\* short_composition2 and price as read, a missing cell being NaNText.
CsvRows ==
    { [name |-> << "A", "5", "M", "g" >>,
       short_composition1 |-> << "P", "," >>,
       short_composition2 |-> NaNText,
       price |-> << "2" >>],
      [name |-> << "b", "5", "m", "g" >>,
       short_composition1 |-> NaNText,
       short_composition2 |-> << "(", "p", ")" >>,
       price |-> << "1" >>],
      [name |-> << "b", "5", " ", "m", "g" >>,
       short_composition1 |-> << "p" >>,
       short_composition2 |-> NaNText,
       price |-> << "1" >>],
      [name |-> << "a", "b", "5", "m", "g" >>,
       short_composition1 |-> << "q" >>,
       short_composition2 |-> NaNText,
       price |-> << "3" >>],
      [name |-> << " ", "c", "5", "m", "g" >>,
       short_composition1 |-> << "p" >>,
       short_composition2 |-> NaNText,
       price |-> << "N", "/", "A" >>],
      [name |-> << "d" >>,
       short_composition1 |-> NaNText,
       short_composition2 |-> NaNText,
       price |-> << "2" >>] }

\* The CSV files: every sequence of at most MaxRows rows.
CsvFiles == UNION {[1..n -> CsvRows] : n \in 0..MaxRows}

\* The medicine names a caller passes.
MedicineNames ==
    { << "b" >>,
      << " ", "A", "5", "M", "G" >>,
      << "z" >> }

\* What the text box can hold when the button is pressed.
TypedNames == MedicineNames \cup { << " " >> }

\* ------------------------------------------------------------ load the data

\* df["composition"]: the two cells, missing ones empty, around one space
composition(r) ==
    fillna(r.short_composition1) \o << " " >> \o fillna(r.short_composition2)

\* astype("category").cat.codes: the categories are the distinct values in
\* sorted order, and a value's code is its position among them, from 0
cat_codes(values, v) == Cardinality({w \in values : StrLess(w, v)})

\* The table after the module's start-up code: price made numeric, the
\* composition cleaned, rows of empty composition dropped, clean_name, dosage
\* and drug_group added.
load(csv) ==
    LET numeric == [i \in 1..Len(csv) |->
                      [name |-> csv[i].name,
                       short_composition1 |-> csv[i].short_composition1,
                       short_composition2 |-> csv[i].short_composition2,
                       price |-> to_numeric(csv[i].price),
                       composition |-> composition(csv[i]),
                       clean_composition |-> clean_composition(composition(csv[i]))]]
        NonEmpty(r) == r.clean_composition # << >>
        kept == SelectSeq(numeric, NonEmpty)
        values == {kept[i].clean_composition : i \in 1..Len(kept)}
    IN  [i \in 1..Len(kept) |->
            [name |-> kept[i].name,
             short_composition1 |-> kept[i].short_composition1,
             short_composition2 |-> kept[i].short_composition2,
             price |-> kept[i].price,
             composition |-> kept[i].composition,
             clean_composition |-> kept[i].clean_composition,
             clean_name |-> strip(lower(kept[i].name)),
             dosage |-> extract_dosage(kept[i].name),
             drug_group |-> cat_codes(values, kept[i].clean_composition)]]

\* -------------------------------------------------------- the model files

\* The compositions the pipeline can be asked about.
Compositions ==
    {clean_composition(composition(r)) : r \in CsvRows} \ {<< >>}

\* The labels label_encoder decodes to: the group codes of the training data.
Labels == 0..(Cardinality(Compositions) - 1)

\* tfidf.transform, model.predict and label_encoder.inverse_transform on one
\* composition: a decoded label, or an exception out of one of the three.
Predictions ==
    {[raises |-> FALSE, label |-> l] : l \in Labels}
        \cup {[raises |-> TRUE, label |-> 0]}

\* The loaded artifacts: any deterministic map from composition to outcome.
Pipelines == [Compositions -> Predictions]

\* ------------------------------------------------------------------ state

VARIABLES
    df,            \* the module-level table, a sequence of rows
    pipeline,      \* tfidf, model and label_encoder as loaded
    call,          \* the arguments of the latest call of recommend_alternatives
    alternatives,  \* the positions in df of the rows of alternatives.head(top_n)
    result,        \* what the latest call produced
    ui             \* what the page shows after the latest run of the script

vars == << df, pipeline, call, alternatives, result, ui >>

\* ------------------------------------------------- recommend_alternatives

Min(a, b) == IF a <= b THEN a ELSE b

Max(a, b) == IF a >= b THEN a ELSE b

\* df[df["clean_name"].str.contains(key, regex=False)]: the positions kept
matches(tbl, key) ==
    LET Hit(i) == contains(tbl[i].clean_name, key)
    IN  SelectSeq([i \in 1..Len(tbl) |-> i], Hit)

\* is_alternative without the test on clean_name.
is_alternative_any_name(rec, row, real_group) ==
    /\ rec.drug_group = real_group
    /\ rec.dosage = row.dosage

\* The mask of the alternatives: same group as predicted, same dosage string
\* as the reference row, another clean_name than the reference row's.
is_alternative(rec, row, real_group) ==
    /\ rec.drug_group = real_group
    /\ rec.dosage = row.dosage
    /\ rec.clean_name # row.clean_name

\* The sorted order of the known prices: insertion after the last element
\* that is not greater (what the sort does on a frame this small).
RECURSIVE insert_by_price(_, _, _)
insert_by_price(tbl, sorted, i) ==
    IF sorted = << >> THEN << i >>
    ELSE IF tbl[Head(sorted)].price <= tbl[i].price
         THEN << Head(sorted) >> \o insert_by_price(tbl, Tail(sorted), i)
         ELSE << i >> \o sorted

RECURSIVE argsort(_, _)
argsort(tbl, idx) ==
    IF idx = << >> THEN << >>
    ELSE insert_by_price(tbl, argsort(tbl, SubSeq(idx, 1, Len(idx) - 1)), idx[Len(idx)])

\* sort_values leaving the frame in table order.
sort_values_unsorted(tbl, idx) == idx

\* alternatives.sort_values(by="price", ascending=True): the rows of known
\* price in ascending order, then the rows of missing price in frame order
\* (na_position defaults to "last").
sort_values(tbl, idx) ==
    LET Known(i) == tbl[i].price # NaN
        Missing(i) == tbl[i].price = NaN
    IN  argsort(tbl, SelectSeq(idx, Known)) \o SelectSeq(idx, Missing)

\* head keeping one row too many.
head_one_more(idx, n) ==
    IF n >= 0 THEN SubSeq(idx, 1, Min(n + 1, Len(idx)))
    ELSE SubSeq(idx, 1, Max(Len(idx) + n + 1, 0))

\* DataFrame.head(n): the first n rows, and for a negative n every row but
\* the last -n
head(idx, n) ==
    IF n >= 0 THEN SubSeq(idx, 1, Min(n, Len(idx)))
    ELSE SubSeq(idx, 1, Max(Len(idx) + n, 0))

\* [["name", "clean_composition", "price"]] and reset_index(drop=True)
frame(tbl, idx) ==
    [k \in 1..Len(idx) |->
        [name |-> tbl[idx[k]].name,
         clean_composition |-> tbl[idx[k]].clean_composition,
         price |-> tbl[idx[k]].price]]

\* The three ways a call ends.
ReturnsNone == [kind |-> "None", index |-> << >>, rows |-> << >>]

Raises == [kind |-> "raise", index |-> << >>, rows |-> << >>]

ReturnsFrame(tbl, idx) == [kind |-> "DataFrame", index |-> idx, rows |-> frame(tbl, idx)]

\* recommend_alternatives(medicine_name, top_n) on table tbl with the
\* loaded pipeline pipe.
recommend(tbl, pipe, medicine_name, top_n) ==
    LET key == strip(lower(medicine_name))
        found == matches(tbl, key)
    IN  IF found = << >> THEN ReturnsNone
        ELSE
        LET row == tbl[found[1]]
            pred == pipe[row.clean_composition]
        IN  IF pred.raises THEN Raises
            ELSE
            LET real_group == pred.label
                Passes(i) == is_alternative(tbl[i], row, real_group)
                alts == SelectSeq([i \in 1..Len(tbl) |-> i], Passes)
            IN  IF alts = << >> THEN ReturnsNone
                ELSE ReturnsFrame(tbl, head(sort_values(tbl, alts), top_n))

\* ---------------------------------------------------------------- actions

NoCall == [called |-> FALSE, medicine_name |-> << >>, top_n |-> 0]

Init ==
    /\ \E csv \in CsvFiles : df = load(csv)
    /\ pipeline \in Pipelines
    /\ call = NoCall
    /\ alternatives = << >>
    /\ result = [kind |-> "idle", rows |-> << >>]
    /\ ui = "idle"

\* recommend_alternatives sorting the module-level table itself by price
\* (df.sort_values(..., inplace=True)) before it answers.
recommend_alternatives_inplace(medicine_name, top_n) ==
    LET sorted == [k \in 1..Len(df) |-> df[sort_values(df, [i \in 1..Len(df) |-> i])[k]]]
        out == recommend(sorted, pipeline, medicine_name, top_n)
    IN  /\ df' = sorted
        /\ call' = [called |-> TRUE, medicine_name |-> medicine_name, top_n |-> top_n]
        /\ alternatives' = out.index
        /\ result' = [kind |-> out.kind, rows |-> out.rows]
        /\ UNCHANGED << pipeline, ui >>

\* A call of recommend_alternatives(medicine_name, top_n) by any caller.
recommend_alternatives(medicine_name, top_n) ==
    LET out == recommend(df, pipeline, medicine_name, top_n)
    IN  /\ call' = [called |-> TRUE, medicine_name |-> medicine_name, top_n |-> top_n]
        /\ alternatives' = out.index
        /\ result' = [kind |-> out.kind, rows |-> out.rows]
        /\ UNCHANGED << df, pipeline, ui >>

\* The search button with nothing typed: the warning, and no call.
search_btn_empty(typed) ==
    /\ strip(typed) = << >>
    /\ ui' = "warning"
    /\ UNCHANGED << df, pipeline, call, alternatives, result >>

\* The search button with a name typed: the call, and then the error box for
\* None or an empty frame, the result cards for a frame with rows, and the
\* traceback when the call raised (nothing catches it).
search_btn(typed, top_n) ==
    LET medicine_input == strip(typed)
        out == recommend(df, pipeline, medicine_input, top_n)
    IN  /\ medicine_input # << >>
        /\ call' = [called |-> TRUE, medicine_name |-> medicine_input, top_n |-> top_n]
        /\ alternatives' = out.index
        /\ result' = [kind |-> out.kind, rows |-> out.rows]
        /\ ui' = CASE out.kind = "raise" -> "exception"
                   [] out.kind = "None" \/ out.rows = << >> -> "error"
                   [] OTHER -> "success"
        /\ UNCHANGED << df, pipeline >>

\* Calls of the function by any caller, with any integer top_n.
Next ==
    \E m \in MedicineNames, n \in (0 - 1)..MaxTopN : recommend_alternatives(m, n)

Spec == Init /\ [][Next]_vars

\* The page: the button pressed with the text box as typed and the slider at
\* top_n (min_value=1).
NextUI ==
    \/ \E m \in TypedNames : search_btn_empty(m)
    \/ \E m \in TypedNames, n \in 1..MaxTopN : search_btn(m, n)

SpecUI == Init /\ [][NextUI]_vars

\* ----------------------------------------------- the vocabulary of the claims

\* The query as matched: lowercased and trimmed.
CalledKey == strip(lower(call.medicine_name))

\* The positions of the records whose clean_name contains the query.
MatchPositions == {i \in 1..Len(df) : contains(df[i].clean_name, CalledKey)}

\* The reference record: the first match in table order.
RefPos == CHOOSE i \in MatchPositions : \A j \in MatchPositions : i <= j

Reference == df[RefPos]

\* The pipeline's outcome for the reference record's clean_composition.
Predicted == pipeline[Reference.clean_composition]

\* The call returned a sequence of records.
Returned == call.called /\ result.kind = "DataFrame"

\* The records of the table that come back, in the order returned.
ReturnedRecords == [k \in 1..Len(alternatives) |-> df[alternatives[k]]]

\* The positions of the records that pass the group/dosage/name filter.
CandidatePositions ==
    {i \in 1..Len(df) :
        /\ df[i].drug_group = Predicted.label
        /\ df[i].dosage = Reference.dosage
        /\ df[i].clean_name # Reference.clean_name}

\* ------------------------------------------------------------------ claims

\* C1: whenever recommend_alternatives returns a sequence, its records are
\* records of the table, and each of them has the drug_group the pipeline
\* predicted for the reference record's clean_composition, the reference's
\* dosage string and another clean_name than the reference's, the reference
\* being the first record in table order whose clean_name contains the
\* lowercased, trimmed query.
C1_ReturnedPassFilter ==
    Returned =>
        /\ MatchPositions # {}
        /\ ~Predicted.raises
        /\ Len(result.rows) = Len(alternatives)
        /\ \A k \in 1..Len(alternatives) :
            LET r == df[alternatives[k]]
            IN  /\ result.rows[k].name = r.name
                /\ result.rows[k].clean_composition = r.clean_composition
                /\ result.rows[k].price = r.price
                /\ r.drug_group = Predicted.label
                /\ r.dosage = Reference.dosage
                /\ r.clean_name # Reference.clean_name

\* C1 witness: a sequence came back for a query that several records match,
\* the reference among them not being returned although it is in the
\* predicted group and has the dosage.
C1_Witness ==
    /\ Returned
    /\ Len(alternatives) >= 1
    /\ Cardinality(MatchPositions) >= 2
    /\ Reference.drug_group = Predicted.label
    /\ \E i \in 1..Len(df) :
        /\ i # RefPos
        /\ df[i].clean_name = Reference.clean_name

\* C2: every returned record belongs to the reference record's own
\* drug_group, whatever the pipeline predicts.
C2_SameGroupAsReference ==
    Returned =>
        \A k \in 1..Len(alternatives) :
            df[alternatives[k]].drug_group = Reference.drug_group

\* C3: every returned record of known price is strictly cheaper than the
\* reference record (whose price is known).
C3_CheaperThanReference ==
    Returned /\ Reference.price # NaN =>
        \A k \in 1..Len(result.rows) :
            result.rows[k].price # NaN => result.rows[k].price < Reference.price

\* C4: a call ends in None exactly when no record matches the query or no
\* record passes the filter, and in every other case with a positive top_n
\* in a non-empty sequence.
C4_NoneExactlyWhenNothingFound ==
    call.called =>
        LET nothing == \/ MatchPositions = {}
                       \/ (~Predicted.raises /\ CandidatePositions = {})
        IN  /\ (result.kind = "None") <=> nothing
            /\ (~nothing /\ call.top_n > 0) =>
                   (result.kind = "DataFrame" /\ result.rows # << >>)

\* C5: the returned sequence is a prefix of the candidates in ascending order
\* of price, missing prices last: consecutive known prices do not decrease,
\* no record of missing price precedes one of known price, and no candidate
\* left out has a known price below a returned record's price or is of known
\* price while a returned record's price is missing.
C5_SortedPrefix ==
    Returned =>
        /\ \A k \in 1..(Len(result.rows) - 1) :
            \/ result.rows[k + 1].price = NaN
            \/ /\ result.rows[k].price # NaN
               /\ result.rows[k].price <= result.rows[k + 1].price
        /\ \A o \in CandidatePositions :
            (df[o].price # NaN /\ \A k \in 1..Len(alternatives) : alternatives[k] # o) =>
                \A k \in 1..Len(result.rows) :
                    /\ result.rows[k].price # NaN
                    /\ result.rows[k].price <= df[o].price

\* C5 witness: two records came back in another order than the table's, so
\* the sort moved them.
C5_Witness ==
    /\ Returned
    /\ Len(alternatives) = 2
    /\ alternatives[1] > alternatives[2]
    /\ result.rows[1].price # NaN

\* C6: for a positive top_n the returned sequence has at most top_n records,
\* and at most as many as there are candidates.
C6_AtMostTopN ==
    (Returned /\ call.top_n > 0) =>
        /\ Len(result.rows) <= call.top_n
        /\ Len(result.rows) <= Cardinality(CandidatePositions)

\* C6 witness: more candidates than top_n, and top_n of them returned.
C6_Witness ==
    /\ Returned
    /\ call.top_n > 0
    /\ Cardinality(CandidatePositions) > call.top_n
    /\ Len(result.rows) = call.top_n

\* C7: a call with top_n zero or negative is rejected or returns no record.
C7_NonPositiveTopNReturnsNothing ==
    (call.called /\ call.top_n <= 0) => result.rows = << >>

\* C8: a failure of the pipeline on the reference record's composition ends
\* in the not_found outcome, on the page the error box, never in an uncaught
\* exception.
C8_FailureDegradesToNotFound ==
    (call.called /\ MatchPositions # {} /\ Predicted.raises) =>
        /\ result.kind = "None"
        /\ ui = "error"

\* A whitespace character of s at position k that stands between a number and
\* its unit.
InUnitGap(s, k) ==
    /\ IsSpace(s[k])
    /\ \E a \in 2..k, b \in k..Len(s) :
        /\ \A j \in a..b : IsSpace(s[j])
        /\ IsDigit(s[a - 1])
        /\ \E u \in 1..Len(Units) : StartsAt(lower(s), b + 1, Units[u])

\* s without the whitespace between its numbers and their units.
WithoutUnitGaps(s) ==
    LET Stays(k) == ~InUnitGap(s, k)
        kept == SelectSeq([k \in 1..Len(s) |-> k], Stays)
    IN  [k \in 1..Len(kept) |-> s[kept[k]]]

\* C9: two names that differ only in the whitespace between a number and its
\* unit have the same dosage key.
C9_SpacingNormalizedAway ==
    \A i, j \in 1..Len(df) :
        WithoutUnitGaps(df[i].name) = WithoutUnitGaps(df[j].name) =>
            df[i].dosage = df[j].dosage

\* C10: no call changes the table or the loaded pipeline, and a call repeated
\* with the same arguments gives the same result.
C10_CallsOnlyRead ==
    [][/\ df' = df
       /\ pipeline' = pipeline
       /\ (call.called /\ call' = call) =>
              (result' = result /\ alternatives' = alternatives)]_vars

\* C10 witness: a call has returned records of a table that is not in price
\* order, the records in another order than the table's.
C10_Witness ==
    /\ Returned
    /\ Len(alternatives) >= 2
    /\ alternatives[1] > alternatives[2]

====
